---- MODULE Spec2Model ----
(***************************************************************************)
(* A model of lib/lib.js of uncss: the selector normaliser (dePseudify),   *)
(* the rule filter (filterUnusedSelectors, filterEmptyRules,               *)
(* filterUnusedRules), the entry point (uncss) with its per-document       *)
(* oracle calls, and the path resolver (parsePaths).                       *)
(*                                                                         *)
(* Strings are sequences of one-character strings, so that prefixes,       *)
(* searches and replacements are computed and not assumed.                 *)
(***************************************************************************)
EXTENDS Integers, Sequences, FiniteSets, TLC

VARIABLES
    stylesheet,   \* uncss: the caller's AST (stylesheet.rules), mutated in place
    sheet0,       \* uncss: stylesheet.rules as handed to the current call of uncss
    ignore,       \* uncss: the ignore list (literal strings and RegExp objects)
    lastIndex,    \* uncss: the lastIndex property of each RegExp of the ignore list
    dom,          \* uncss: per page, the normalized selectors matching an element
    query,        \* uncss: the selector list handed to phantom.findAll by this call
    status,       \* uncss: per page, the state of its phantom.findAll call
    used,         \* uncss: async.concat's accumulator of the pages' results
    phase,        \* uncss: "idle", "collecting", "failed" (callback(err)), "done"
    cbArgs,       \* uncss: the arguments the caller's callback was invoked with
    run,          \* uncss: the number of calls of uncss made so far
    nSel,         \* dePseudify: the selector given
    nOut,         \* dePseudify: what the scan produced
    nPc,          \* dePseudify: "in" before the call, "out" after
    pSource,      \* parsePaths: source
    pSheet,       \* parsePaths: one entry of stylesheets
    pOptions,     \* parsePaths: options
    pResult,      \* parsePaths: the value the entry maps to, or the error thrown
    pPc           \* parsePaths: "in" before the call, "out" after

uncssVars == <<stylesheet, sheet0, ignore, lastIndex, dom, query, status, used,
               phase, cbArgs, run>>
normVars == <<nSel, nOut, nPc>>
pathVars == <<pSource, pSheet, pOptions, pResult, pPc>>
vars == <<uncssVars, normVars, pathVars>>

----------------------------------------------------------------------------
(* Bounds of the model *)

\* rule nodes plus selectors of an input stylesheet
MaxSize == 4
\* entries of the ignore list
MaxIgnore == 1
\* documents (pages) of one call of uncss
MaxPages == 2
\* successive calls of uncss (the second one on the first one's output)
MaxRuns == 2
\* pieces a selector given to dePseudify is made of
MaxPieces == 3
\* pieces a path given to parsePaths is made of
MaxPathPieces == 3

----------------------------------------------------------------------------
(* Strings *)

Range(s) == {s[i] : i \in 1..Len(s)}

InSeq(s, x) == \E i \in 1..Len(s) : s[i] = x

\* t occurs in s at the 1-based position i
IsAt(s, i, t) ==
    /\ i >= 1
    /\ i + Len(t) - 1 <= Len(s)
    /\ SubSeq(s, i, i + Len(t) - 1) = t

\* the least element of a set of integers, none when the set is empty
MinOr(S, none) == IF S = {} THEN none ELSE CHOOSE x \in S : \A y \in S : x <= y

RECURSIVE Flatten(_)
Flatten(ss) == IF ss = <<>> THEN <<>> ELSE Head(ss) \o Flatten(Tail(ss))

\* the sequences of at most n elements of S
SeqsUpTo(S, n) == UNION {[1..k -> S] : k \in 0..n}

RECURSIVE IsSubSeq(_, _)
IsSubSeq(a, b) ==
    IF a = <<>> THEN TRUE
    ELSE IF b = <<>> THEN FALSE
    ELSE IsSubSeq(IF Head(a) = Head(b) THEN Tail(a) ELSE a, Tail(b))

----------------------------------------------------------------------------
(* dePseudify *)

ignored_pseudos == <<
    <<":", "l", "i", "n", "k">>,
    <<":", "v", "i", "s", "i", "t", "e", "d">>,
    <<":", "h", "o", "v", "e", "r">>,
    <<":", "a", "c", "t", "i", "v", "e">>,
    <<":", "f", "o", "c", "u", "s">>,
    <<":", "e", "n", "a", "b", "l", "e", "d">>,
    <<":", "d", "i", "s", "a", "b", "l", "e", "d">>,
    <<":", "c", "h", "e", "c", "k", "e", "d">>,
    <<":", "i", "n", "d", "e", "t", "e", "r", "m", "i", "n", "a", "t", "e">>,
    <<":", ":", "f", "i", "r", "s", "t", "-", "l", "i", "n", "e">>,
    <<":", ":", "f", "i", "r", "s", "t", "-", "l", "e", "t", "t", "e", "r">>,
    <<":", ":", "s", "e", "l", "e", "c", "t", "i", "o", "n">>,
    <<":", ":", "b", "e", "f", "o", "r", "e">>,
    <<":", ":", "a", "f", "t", "e", "r">>,
    <<":", "b", "e", "f", "o", "r", "e">>,
    <<":", "a", "f", "t", "e", "r">> >>

\* The alternation ignored_pseudos.join('|') at position i of s: the length
\* of the first alternative that matches there, 0 when none does.
AltLen(k) == IF k = 0 THEN 0 ELSE Len(ignored_pseudos[k])

AltAtNoCss2(s, i) ==
    AltLen(MinOr({k \in 1..(Len(ignored_pseudos) - 2) : IsAt(s, i, ignored_pseudos[k])}, 0))

AltAt(s, i) ==
    AltLen(MinOr({k \in 1..Len(ignored_pseudos) : IsAt(s, i, ignored_pseudos[k])}, 0))

\* selector.replace(pseudos_regex, '') with the g flag: one scan from the left;
\* a match is dropped and the scan goes on behind it.  out is the text kept so
\* far, cuts the lengths of out at which a match was dropped.
RECURSIVE Scan(_, _, _, _)
ScanStep(s, i, out, cuts, n) ==
    IF n = 0
    THEN [i |-> i + 1, out |-> Append(out, s[i]), cuts |-> cuts]
    ELSE [i |-> i + n, out |-> out, cuts |-> cuts \cup {Len(out)}]

ScanOn(s, step) == Scan(s, step.i, step.out, step.cuts)

Scan(s, i, out, cuts) ==
    IF i > Len(s) THEN [out |-> out, cuts |-> cuts]
    ELSE ScanOn(s, ScanStep(s, i, out, cuts, AltAt(s, i)))

Replace(selector) == Scan(selector, 1, <<>>, {})

dePseudify(selector) == Replace(selector).out

----------------------------------------------------------------------------
(* The stylesheet AST and the inputs of uncss *)

\* the raw selectors of the input stylesheets: .a  .a:hover  .b  @m
Selectors == {
    <<".", "a">>,
    <<".", "a", ":", "h", "o", "v", "e", "r">>,
    <<".", "b">>,
    <<"@", "m">> }

\* what a document can match: the normalized selectors that are no at-rule
Matchable == {dePseudify(s) : s \in Selectors} \ {<<"@", "m">>}

\* A rule of css.parse: type 'rule' with selectors, type 'media' with rules,
\* any other type with neither.  Declarations and media conditions are
\* payload the code never reads.
SelectorRule(sl) == [type |-> "rule", selectors |-> sl, rules |-> <<>>]
MediaRule(rs) == [type |-> "media", selectors |-> <<>>, rules |-> rs]
OtherRule == [type |-> "font-face", selectors |-> <<>>, rules |-> <<>>]

\* the rule sequences of exactly n nodes (rules plus selectors): a first rule
\* of m nodes, which is a selector rule of m - 1 selectors, a media rule whose
\* rules have m - 1 nodes or, for m = 1, another rule; then the others
RuleSeqsOfSize[n \in 0..(MaxSize + 1)] ==
    IF n = 0 THEN {<<>>}
    ELSE UNION {{<<r>> \o rs :
                   r \in {SelectorRule(sl) : sl \in [1..(m - 1) -> Selectors]}
                         \cup {MediaRule(c) : c \in RuleSeqsOfSize[m - 1]}
                         \cup (IF m = 1 THEN {OtherRule} ELSE {}),
                   rs \in RuleSeqsOfSize[n - m]}
                : m \in 1..n}

Stylesheets == UNION {RuleSeqsOfSize[n] : n \in 0..MaxSize}

\* An entry of the ignore list: a string, or a RegExp whose source is a
\* literal text, with or without the g flag.
Str(text) == [kind |-> "string", text |-> text, global |-> FALSE]
RegExp(text, g) == [kind |-> "regexp", text |-> text, global |-> g]

IgnoreEntries == {Str(<<".", "a">>), RegExp(<<"a">>, FALSE), RegExp(<<"a">>, TRUE)}

IgnoreLists == SeqsUpTo(IgnoreEntries, MaxIgnore)

----------------------------------------------------------------------------
(* RegExp.prototype.test *)

\* the 0-based index of the first occurrence of text in s at or after from,
\* -1 when there is none
Search(text, s, from) == MinOr({i \in from..Len(s) : IsAt(s, i + 1, text)}, -1)

\* re.test(s) for a RegExp whose lastIndex is li: the answer and the new
\* lastIndex.  Without the g flag the search starts at 0 and lastIndex stays;
\* with it the search starts at lastIndex, which a match sets to the match's
\* end and a failure resets to 0.
Matched(re, li, i) ==
    IF i = -1 THEN [hit |-> FALSE, li |-> IF re.global THEN 0 ELSE li]
    ELSE [hit |-> TRUE, li |-> IF re.global THEN i + Len(re.text) ELSE li]

Test(re, li, s) ==
    Matched(re, li, IF re.global /\ li > Len(s) THEN -1
                    ELSE Search(re.text, s, IF re.global THEN li ELSE 0))

----------------------------------------------------------------------------
(* filterUnusedSelectors *)

\* selector[0] === '@'
IsAtRuleNever(selector) == FALSE

IsAtRule(selector) == Len(selector) > 0 /\ selector[1] = "@"

\* One entry of the loop over ignore: ignore[i].test(selector) when it is a
\* RegExp, ignore[i] === selector otherwise.
IgnoreStep(entry, li, selector) ==
    IF entry.kind = "regexp" THEN Test(entry, li, selector)
    ELSE [hit |-> entry.text = selector, li |-> li]

\* The loop over ignore, from entry i on: whether an entry made the filter
\* return true, and the RegExps' lastIndex after the tests made.
RECURSIVE IgnoreLoop(_, _, _, _)
IgnoreNext(ign, lis, selector, i, t) ==
    IF t.hit THEN [hit |-> TRUE, lis |-> [lis EXCEPT ![i] = t.li]]
    ELSE IgnoreLoop(ign, [lis EXCEPT ![i] = t.li], selector, i + 1)

IgnoreLoop(ign, lis, selector, i) ==
    IF i > Len(ign) THEN [hit |-> FALSE, lis |-> lis]
    ELSE IgnoreNext(ign, lis, selector, i, IgnoreStep(ign[i], lis[i], selector))

\* the filter's callback on one selector: selector is dePseudify's result
KeepIgnored(selector, used_selectors, r) ==
    [keep |-> r.hit \/ InSeq(used_selectors, selector), lis |-> r.lis]

KeepNormalized(selector, ign, lis, used_selectors) ==
    IF IsAtRule(selector) THEN [keep |-> TRUE, lis |-> lis]
    ELSE KeepIgnored(selector, used_selectors, IgnoreLoop(ign, lis, selector, 1))

KeepSelector(raw, ign, lis, used_selectors) ==
    KeepNormalized(dePseudify(raw), ign, lis, used_selectors)

\* Array.prototype.filter keeps an element behind those kept before it
PushFront(kept, raw) == <<raw>> \o kept

Push(kept, raw) == Append(kept, raw)

\* selectors.filter(...), from the left: the selectors kept and the lastIndex
\* of the RegExps afterwards
RECURSIVE FilterFrom(_, _, _, _, _)
FilterNext(rest, raw, ign, used_selectors, kept, k) ==
    FilterFrom(rest, ign, k.lis, used_selectors,
               IF k.keep THEN Push(kept, raw) ELSE kept)

FilterFrom(selectors, ign, lis, used_selectors, kept) ==
    IF selectors = <<>> THEN [selectors |-> kept, lis |-> lis]
    ELSE FilterNext(Tail(selectors), Head(selectors), ign, used_selectors, kept,
                    KeepSelector(Head(selectors), ign, lis, used_selectors))

filterUnusedSelectors(selectors, ign, lis, used_selectors) ==
    FilterFrom(selectors, ign, lis, used_selectors, <<>>)

----------------------------------------------------------------------------
(* filterEmptyRules *)

\* what the filter's callback returns for a rule it has visited
KeepRuleAnyMedia(rule) ==
    IF rule.type = "rule" THEN Len(rule.selectors) > 0 ELSE TRUE

KeepRule(rule) ==
    IF rule.type = "rule" THEN Len(rule.selectors) > 0
    ELSE IF rule.type = "media" THEN Len(rule.rules) > 0
    ELSE TRUE

\* Visited(rules): the rule objects after filterEmptyRules(rules) went over
\* them (a media rule's rules are reassigned); filterEmptyRules(rules): the
\* array it returns.
RECURSIVE Visited(_)
RECURSIVE filterEmptyRules(_)
Visited(rules) ==
    [i \in 1..Len(rules) |->
        IF rules[i].type = "media"
        THEN [rules[i] EXCEPT !.rules = filterEmptyRules(rules[i].rules)]
        ELSE rules[i]]

filterEmptyRules(rules) == SelectSeq(Visited(rules), KeepRule)

----------------------------------------------------------------------------
(* filterUnusedRules *)

\* async.eachSeries over rules, from the left, then the final callback.
\*   objects: the rule objects of the array after the call (the array itself
\*            is not reassigned, its rules are mutated),
\*   res:     res.stylesheet.rules of the callback's argument,
\*   lis:     the lastIndex of the RegExps afterwards.
RECURSIVE filterUnusedRules(_, _, _, _)
RECURSIVE EachSeries(_, _, _, _, _)

\* rule.selectors = selectors, in filterUnusedSelectors's callback
SetSelectors(rule, f) ==
    [rule |-> [rule EXCEPT !.selectors = f.selectors], lis |-> f.lis]

\* rule.rules = res.stylesheet.rules, in the recursive call's callback
SetRules(rule, f) ==
    [rule |-> [rule EXCEPT !.rules = f.res], lis |-> f.lis]

\* the iterator of async.eachSeries on one rule
VisitRule(rule, ign, lis, used_selectors) ==
    IF rule.type = "rule"
    THEN SetSelectors(rule,
             filterUnusedSelectors(rule.selectors, ign, lis, used_selectors))
    ELSE IF rule.type = "media"
    THEN SetRules(rule, filterUnusedRules(rule.rules, ign, lis, used_selectors))
    ELSE [rule |-> rule, lis |-> lis]

EachNext(rest, ign, used_selectors, done, v) ==
    EachSeries(rest, ign, v.lis, used_selectors, Append(done, v.rule))

EachSeries(rules, ign, lis, used_selectors, done) ==
    IF rules = <<>> THEN [rules |-> done, lis |-> lis]
    ELSE EachNext(Tail(rules), ign, used_selectors, done,
                  VisitRule(Head(rules), ign, lis, used_selectors))

\* the final callback of async.eachSeries
Filtered(e) ==
    [objects |-> Visited(e.rules), res |-> filterEmptyRules(e.rules), lis |-> e.lis]

filterUnusedRules(rules, ign, lis, used_selectors) ==
    Filtered(EachSeries(rules, ign, lis, used_selectors, <<>>))

----------------------------------------------------------------------------
(* getUsedSelectors and the oracle *)

\* async.concat over the rules: a rule's selectors, a media rule's collected
\* selectors, nothing for another rule
RECURSIVE Collect(_)
Collect(rules) ==
    IF rules = <<>> THEN <<>>
    ELSE (IF Head(rules).type = "rule" THEN Head(rules).selectors
          ELSE IF Head(rules).type = "media" THEN Collect(Head(rules).rules)
          ELSE <<>>) \o Collect(Tail(rules))

\* selectors.map(dePseudify): the list handed to phantom.findAll
MapDePseudify(selectors) == [i \in 1..Len(selectors) |-> dePseudify(selectors[i])]

Query(rules) == MapDePseudify(Collect(rules))

\* phantom.findAll(page, selectors, callback) when it succeeds: the selectors
\* of the list that match an element of the page
FindAll(page, selectors) == SelectSeq(selectors, LAMBDA s : s \in dom[page])

Pages == 1..Len(dom)

----------------------------------------------------------------------------
(* uncss *)

\* the values a callback is called with
Null == [kind |-> "null", page |-> 0, rules |-> <<>>]
Error(page) == [kind |-> "error", page |-> page, rules |-> <<>>]
Css(rules) == [kind |-> "css", page |-> 0, rules |-> rules]

\* async.concat calls its final callback without an error once the iterator
\* has called done for every page
CompleteAny(st) == \E p \in DOMAIN st : st[p] = "ok"

Complete(st) == \A p \in DOMAIN st : st[p] = "ok"

\* callback({stylesheet: {rules: ...}}) of filterUnusedRules, as uncss passes
\* its own callback on: the state the call leaves
Reported(f) ==
    [stylesheet |-> f.objects, lastIndex |-> f.lis,
     cbArgs |-> <<Css(f.res)>>, phase |-> "done"]

\* The final callback of uncss's async.concat, function (err, used_selectors),
\* with all it calls: callback(err), or filterUnusedRules and its callback.
CollectedNoErrCheck(err, rules, lis, used_selectors) ==
    Reported(filterUnusedRules(rules, ignore, lis, used_selectors))

Collected(err, rules, lis, used_selectors) ==
    IF err.kind # "null"
    THEN [stylesheet |-> rules, lastIndex |-> lis,
          cbArgs |-> <<err>>, phase |-> "failed"]
    ELSE Reported(filterUnusedRules(rules, ignore, lis, used_selectors))

\* the state a call of the final callback leaves
Leave(c) ==
    /\ stylesheet' = c.stylesheet
    /\ lastIndex' = c.lastIndex
    /\ cbArgs' = c.cbArgs
    /\ phase' = c.phase

\* uncss(pages, {rules: rules}, ignore, callback): getUsedSelectors collects
\* the selectors and issues phantom.findAll for every page; with no page
\* async.concat calls the final callback at once.
Call(rules) ==
    /\ sheet0' = rules
    /\ query' = Query(rules)
    /\ status' = [p \in Pages |-> "pending"]
    /\ used' = <<>>
    /\ run' = run + 1
    /\ IF Pages = {}
       THEN Leave(Collected(Null, rules, lastIndex, <<>>))
       ELSE /\ stylesheet' = rules
            /\ lastIndex' = lastIndex
            /\ cbArgs' = <<>>
            /\ phase' = "collecting"
    /\ UNCHANGED <<ignore, dom>>

\* the caller's first call
Uncss ==
    /\ phase = "idle"
    /\ Call(stylesheet)
    /\ UNCHANGED <<normVars, pathVars>>

\* the caller calls uncss again, on the stylesheet the callback received,
\* with the same pages and the same ignore list
UncssAgain ==
    /\ phase = "done"
    /\ run < MaxRuns
    /\ Call(cbArgs[1].rules)
    /\ UNCHANGED <<normVars, pathVars>>

\* phantom.findAll of a page calls back with the selectors found
FindAllOk(p) ==
    /\ status[p] = "pending"
    /\ status' = [status EXCEPT ![p] = "ok"]
    /\ used' = used \o FindAll(p, query)
    /\ IF phase = "collecting" /\ Complete(status')
       THEN Leave(Collected(Null, stylesheet, lastIndex, used'))
       ELSE UNCHANGED <<stylesheet, lastIndex, cbArgs, phase>>
    /\ UNCHANGED <<sheet0, ignore, dom, query, run, normVars, pathVars>>

\* phantom.findAll of a page calls back with an error: async.concat calls the
\* final callback with it, unless it has called it already
FindAllErr(p) ==
    /\ status[p] = "pending"
    /\ status' = [status EXCEPT ![p] = "failed"]
    /\ IF phase = "collecting"
       THEN Leave(Collected(Error(p), stylesheet, lastIndex, used))
       ELSE UNCHANGED <<stylesheet, lastIndex, cbArgs, phase>>
    /\ UNCHANGED <<sheet0, ignore, dom, query, used, run, normVars, pathVars>>

NormOff ==
    /\ nSel = <<>>
    /\ nOut = [out |-> <<>>, cuts |-> {}]
    /\ nPc = "off"

PathOff ==
    /\ pSource = <<>>
    /\ pSheet = <<>>
    /\ pOptions = <<>>
    /\ pResult = <<>>
    /\ pPc = "off"

UncssOff ==
    /\ stylesheet = <<>>
    /\ sheet0 = <<>>
    /\ ignore = <<>>
    /\ lastIndex = <<>>
    /\ dom = <<>>
    /\ query = <<>>
    /\ status = <<>>
    /\ used = <<>>
    /\ phase = "off"
    /\ cbArgs = <<>>
    /\ run = 0

Init ==
    /\ stylesheet \in Stylesheets
    /\ sheet0 = stylesheet
    /\ ignore \in IgnoreLists
    /\ lastIndex = [i \in 1..Len(ignore) |-> 0]
    /\ dom \in SeqsUpTo(SUBSET Matchable, MaxPages)
    /\ query = <<>>
    /\ status = [p \in 1..Len(dom) |-> "idle"]
    /\ used = <<>>
    /\ phase = "idle"
    /\ cbArgs = <<>>
    /\ run = 0
    /\ NormOff
    /\ PathOff

Next ==
    \/ Uncss
    \/ UncssAgain
    \/ \E p \in Pages : FindAllOk(p)
    \/ \E p \in Pages : FindAllErr(p)

Spec == Init /\ [][Next]_vars

----------------------------------------------------------------------------
(* What the claims speak of *)

\* the stylesheet the callback received (the code passes it first)
Out == cbArgs[1].rules

\* the selectors the oracle returned for at least one page of this call
OracleReturned == UNION {Range(FindAll(p, query)) : p \in Pages}

\* the raw selectors whose normalized form equals a string of the ignore list
\* or is found by a search for a pattern of it
IgnoredSelectors ==
    {s \in Selectors :
        \E i \in 1..Len(ignore) :
            IF ignore[i].kind = "string" THEN ignore[i].text = dePseudify(s)
            ELSE \E at \in 1..Len(dePseudify(s)) : IsAt(dePseudify(s), at, ignore[i].text)}

\* the raw selectors whose normalized form begins with '@' or was returned
SurvivingSelectors ==
    {s \in Selectors :
        \/ (dePseudify(s) # <<>> /\ Head(dePseudify(s)) = "@")
        \/ dePseudify(s) \in OracleReturned}

\* no selector of the rule, at any depth, is in S
RECURSIVE NothingOf(_, _)
NothingOf(rule, S) ==
    /\ \A i \in 1..Len(rule.selectors) : rule.selectors[i] \notin S
    /\ \A i \in 1..Len(rule.rules) : NothingOf(rule.rules[i], S)

\* out is what is left of the rule sequence in, rule by rule and in order, and
\* every selector of S is still in its rule: a rule of in is either the next
\* rule of out, with at least its selectors of S, or is gone and had none
RECURSIVE KeptAll(_, _, _)
KeptAll(in, out, S) ==
    IF in = <<>> THEN out = <<>>
    ELSE \/ /\ out # <<>>
            /\ Head(in).type = Head(out).type
            /\ IsSubSeq(SelectSeq(Head(in).selectors, LAMBDA s : s \in S),
                        Head(out).selectors)
            /\ IsSubSeq(Head(out).selectors, Head(in).selectors)
            /\ KeptAll(Head(in).rules, Head(out).rules, S)
            /\ KeptAll(Tail(in), Tail(out), S)
         \/ /\ NothingOf(Head(in), S)
            /\ KeptAll(Tail(in), out, S)

\* the same, a rule of out having exactly its selectors of S
RECURSIVE ExactlyKept(_, _, _)
ExactlyKept(in, out, S) ==
    IF in = <<>> THEN out = <<>>
    ELSE \/ /\ out # <<>>
            /\ Head(in).type = Head(out).type
            /\ Head(out).selectors = SelectSeq(Head(in).selectors, LAMBDA s : s \in S)
            /\ ExactlyKept(Head(in).rules, Head(out).rules, S)
            /\ ExactlyKept(Tail(in), Tail(out), S)
         \/ /\ NothingOf(Head(in), S)
            /\ ExactlyKept(Tail(in), out, S)

\* out is a subsequence of the rule sequence in, each rule of out having a
\* subsequence of its rule's selectors and, recursively, of its rules
RECURSIVE Derived(_, _)
Derived(out, in) ==
    IF out = <<>> THEN TRUE
    ELSE IF in = <<>> THEN FALSE
    ELSE \/ /\ Head(out).type = Head(in).type
            /\ IsSubSeq(Head(out).selectors, Head(in).selectors)
            /\ Derived(Head(out).rules, Head(in).rules)
            /\ Derived(Tail(out), Tail(in))
         \/ Derived(out, Tail(in))

\* every selector rule has a selector and every media rule a rule, at any depth
RECURSIVE WellFormed(_)
WellFormed(rules) ==
    \A i \in 1..Len(rules) :
        /\ rules[i].type = "rule" => Len(rules[i].selectors) > 0
        /\ rules[i].type = "media" =>
              Len(rules[i].rules) > 0 /\ WellFormed(rules[i].rules)

\* a media rule with rules, all of them media rules with rules
MediaOfMedia(rule) ==
    /\ rule.type = "media"
    /\ Len(rule.rules) > 0
    /\ \A i \in 1..Len(rule.rules) :
          rule.rules[i].type = "media" /\ Len(rule.rules[i].rules) > 0

----------------------------------------------------------------------------
(* Claims on uncss *)

\* C1: a run of the rule filter keeps, in its rule, every selector whose
\* normalized form equals a string of the ignore list or is found by a search
\* for one of its patterns, whatever the usage set, and however often a
\* pattern is tested in the run.
C1_IgnorePrecedence ==
    phase = "done" => KeptAll(sheet0, Out, IgnoredSelectors)

\* C2: with an empty ignore list and every oracle call successful, a selector
\* is in the output if and only if its normalized form begins with '@' or was
\* returned by the oracle for at least one document.
C2_SurvivalExact ==
    (phase = "done" /\ ignore = <<>>) => ExactlyKept(sheet0, Out, SurvivingSelectors)

\* C2's case: two documents, a selector returned for the second one only and
\* kept inside a media rule, and another selector dropped
C2_Witness ==
    /\ phase = "done"
    /\ ignore = <<>>
    /\ Len(dom) = 2
    /\ Range(FindAll(1, query)) = {}
    /\ Range(FindAll(2, query)) # {}
    /\ Out # sheet0
    /\ \E i \in 1..Len(Out) : Out[i].type = "media"

\* C3: once the oracle call of a document has failed, the error is what the
\* caller's callback got, the rule filter has not run and the stylesheet is
\* the one handed in, whatever the other calls do.
C3_NoPartialResult ==
    (\E p \in Pages : status[p] = "failed") =>
        /\ phase = "failed"
        /\ Len(cbArgs) = 1
        /\ cbArgs[1].kind = "error"
        /\ status[cbArgs[1].page] = "failed"
        /\ stylesheet = sheet0

\* C3's case: of two documents one has failed and the other has completed,
\* with a stylesheet the filter would have changed
C3_Witness ==
    /\ Len(dom) = 2
    /\ \E p \in Pages : status[p] = "failed"
    /\ \E p \in Pages : status[p] = "ok"
    /\ Reported(filterUnusedRules(stylesheet, ignore, lastIndex, used)).stylesheet
          # stylesheet

\* C4: in the stylesheet the rule filter returns, every selector rule has a
\* selector and every media rule has a rule, at every depth.
C4_WellFormedOut ==
    phase = "done" => WellFormed(Out)

\* C4's case: a media rule whose only rules are media rules, all gone
C4_Witness ==
    /\ phase = "done"
    /\ Len(sheet0) = 1
    /\ MediaOfMedia(sheet0[1])
    /\ Out = <<>>

\* C5: every selector list of the output is a subsequence of its rule's
\* input list, and every rule sequence a subsequence of its input sequence.
C5_OrderPreserved ==
    phase = "done" => Derived(Out, sheet0)

\* C5's case: a rule of three selectors of which the first and the last stay
C5_Witness ==
    /\ phase = "done"
    /\ Len(sheet0) = 1
    /\ Len(sheet0[1].selectors) = 3
    /\ Len(Out) = 1
    /\ Out[1].selectors = <<sheet0[1].selectors[1], sheet0[1].selectors[3]>>
    /\ sheet0[1].selectors[1] # sheet0[1].selectors[3]

\* C6: a second run of uncss, on the first run's output with the same
\* documents and the same ignore list, returns its input unchanged.
C6_Idempotent ==
    (run >= 2 /\ phase = "done") => Out = sheet0

\* C9: the callback gets an error first only when a collection failed; when
\* all succeed it gets no error first and the stylesheet second.
C9_CallbackConvention ==
    /\ phase = "failed" => cbArgs[1].kind = "error"
    /\ phase = "done" =>
          /\ cbArgs[1].kind = "null"
          /\ Len(cbArgs) >= 2
          /\ cbArgs[2].kind = "css"

\* C10: the stylesheet is changed, and the filter run, only when the oracle
\* call of every document has completed successfully, and the usage set is
\* then what the oracle returned for all of them.
C10_PhaseSeparation ==
    (phase = "done" \/ stylesheet # sheet0) =>
        /\ \A p \in Pages : status[p] = "ok"
        /\ Range(used) = OracleReturned

\* C10's case: two documents with different matches, and a changed stylesheet
C10_Witness ==
    /\ phase = "done"
    /\ Len(dom) = 2
    /\ dom[1] # dom[2]
    /\ stylesheet # sheet0

----------------------------------------------------------------------------
(* dePseudify on its own *)

\* the selectors given: the tokens, a class, and pieces of a token, in a row
NormPieces ==
    Range(ignored_pseudos)
        \cup {<<".", "x">>, <<":">>, <<":", "h", "o">>, <<"v", "e", "r">>}

NormInputs == {Flatten(ps) : ps \in SeqsUpTo(NormPieces, MaxPieces)}

InitNorm ==
    /\ nSel \in NormInputs
    /\ nOut = [out |-> <<>>, cuts |-> {}]
    /\ nPc = "in"
    /\ UncssOff
    /\ PathOff

\* dePseudify(nSel)
Normalize ==
    /\ nPc = "in"
    /\ nOut' = Replace(nSel)
    /\ nPc' = "out"
    /\ UNCHANGED <<nSel, uncssVars, pathVars>>

NextNorm == Normalize

SpecNorm == InitNorm /\ [][NextNorm]_vars

\* C7: the result of dePseudify contains no occurrence of a token.
C7_NoTokenLeft ==
    nPc = "out" =>
        \A p \in 1..Len(nOut.out) : \A k \in 1..Len(ignored_pseudos) :
            ~IsAt(nOut.out, p, ignored_pseudos[k])

\* C7 as amended: dePseudify drops every occurrence of a token that one scan
\* of the selector from the left meets, so that an occurrence of a token in
\* the result was not in the selector: it spans a place where the scan
\* dropped a match and joined the text before it to the text behind it.
C7_OnlyJoinedTokens ==
    nPc = "out" =>
        \A p \in 1..Len(nOut.out) : \A k \in 1..Len(ignored_pseudos) :
            IsAt(nOut.out, p, ignored_pseudos[k]) =>
                \E c \in nOut.cuts : p <= c /\ c <= p + Len(ignored_pseudos[k]) - 2

\* C7's case: the scan dropped a match and the text it joined is a token
C7_Witness ==
    /\ nPc = "out"
    /\ nOut.cuts # {}
    /\ nOut.out = <<":", "h", "o", "v", "e", "r">>

----------------------------------------------------------------------------
(* parsePaths *)

\* a value that may be undefined
Undefined == [defined |-> FALSE, text |-> <<>>]
Defined(text) == [defined |-> TRUE, text |-> text]

\* what an entry of stylesheets maps to, or the error the call throws
String(text) == [kind |-> "string", text |-> text, base |-> <<>>, ref |-> <<>>]
TypeError == [kind |-> "TypeError", text |-> <<>>, base |-> <<>>, ref |-> <<>>]
\* url.resolve(source, sheet), of node's url module, is not interpreted
UrlResolve(source, sheet) ==
    [kind |-> "url.resolve", text |-> <<>>, base |-> source, ref |-> sheet]

StartsWith(s, t) == IsAt(s, 1, t)

\* the 1-based index of the first c in s, 0 when there is none
IndexOf(s, c) == MinOr({i \in 1..Len(s) : s[i] = c}, 0)

\* s.split(c)[0]
BeforeAt(s, i) == IF i = 0 THEN s ELSE SubSeq(s, 1, i - 1)
Before(s, c) == BeforeAt(s, IndexOf(s, c))

\* s.split('/')
RECURSIVE SplitFrom(_, _, _)
SplitFrom(s, i, seg) ==
    IF i > Len(s) THEN <<seg>>
    ELSE IF s[i] = "/" THEN <<seg>> \o SplitFrom(s, i + 1, <<>>)
    ELSE SplitFrom(s, i + 1, Append(seg, s[i]))

Split(s) == SplitFrom(s, 1, <<>>)

\* segs.join('/')
RECURSIVE JoinSegs(_)
JoinSegs(segs) ==
    IF segs = <<>> THEN <<>>
    ELSE IF Len(segs) = 1 THEN Head(segs)
    ELSE Head(segs) \o <<"/">> \o JoinSegs(Tail(segs))

\* url.parse(source).protocol: the scheme and its colon, when source begins
\* with one
SchemeChars == {"h", "t", "p", "a", "w", "i", "r", "c", "d", "."}
ProtocolAt(source, colon) ==
    IF colon > 1 /\ \A i \in 1..(colon - 1) : source[i] \in SchemeChars
    THEN Defined(SubSeq(source, 1, colon))
    ELSE Undefined
Protocol(source) == ProtocolAt(source, IndexOf(source, ":"))

\* path.normalize's walk over the segments: '' and '.' are skipped, '..'
\* takes the segment before it away, or stays when a relative path has none
NormPush(acc, seg, absolute) ==
    IF seg = <<>> \/ seg = <<".">> THEN acc
    ELSE IF seg = <<".", ".">>
    THEN IF acc # <<>> /\ acc[Len(acc)] # <<".", ".">> THEN SubSeq(acc, 1, Len(acc) - 1)
         ELSE IF absolute THEN acc
         ELSE Append(acc, seg)
    ELSE Append(acc, seg)

RECURSIVE NormSegs(_, _, _)
NormSegs(segs, acc, absolute) ==
    IF segs = <<>> THEN acc
    ELSE NormSegs(Tail(segs), NormPush(acc, Head(segs), absolute), absolute)

\* path.normalize(path) of a path that is not empty
NormalizeWalked(path, walked) ==
    (IF path[1] = "/" THEN <<"/">> ELSE <<>>)
    \o (IF walked = <<>> /\ path[1] # "/" THEN <<".">> ELSE walked)
    \o (IF walked # <<>> /\ path[Len(path)] = "/" THEN <<"/">> ELSE <<>>)

PathNormalize(path) ==
    IF path = <<>> THEN <<".">>
    ELSE NormalizeWalked(path, JoinSegs(NormSegs(Split(path), <<>>, path[1] = "/")))

\* path.join(...args): a TypeError when an argument is not a string; else the
\* arguments that are not empty, joined by '/' and normalized
PathJoin(args) ==
    IF \E i \in 1..Len(args) : ~args[i].defined THEN TypeError
    ELSE String(PathNormalize(JoinSegs(SelectSeq(
             [i \in 1..Len(args) |-> args[i].text], LAMBDA a : a # <<>>))))

\* path.dirname(path): up to the last '/' that has a name behind it
DirnameAt(path, end) ==
    IF end = 0 THEN (IF path # <<>> /\ path[1] = "/" THEN <<"/">> ELSE <<".">>)
    ELSE IF end = 2 /\ path[1] = "/" THEN <<"/", "/">>
    ELSE SubSeq(path, 1, end - 1)

PathDirname(path) ==
    DirnameAt(path, -MinOr({-j : j \in {j \in 2..Len(path) :
                                  /\ path[j] = "/"
                                  /\ \E k \in (j + 1)..Len(path) : path[k] # "/"}}, 0))

\* the local-file branch, with sheet cut at its query string or hash
LocalPath(source, sheet, options) ==
    IF sheet # <<>> /\ sheet[1] = "/"
       /\ options.htmlroot.defined /\ options.htmlroot.text # <<>>
    THEN PathJoin(<<options.htmlroot, Defined(sheet)>>)
    ELSE PathJoin(<<Defined(PathDirname(source)), options.csspath, Defined(sheet)>>)

\* the function parsePaths maps over stylesheets
ParseSheet(source, sheet, options) ==
    IF StartsWith(sheet, <<"h", "t", "t", "p">>) THEN String(sheet)
    ELSE IF StartsWith(sheet, <<"/", "/">>)
    THEN (IF StartsWith(source, <<"h", "t", "t", "p">>) /\ Protocol(source).defined
          THEN String(Protocol(source).text \o sheet)
          ELSE String(<<"h", "t", "t", "p", ":">> \o sheet))
    ELSE IF StartsWith(source, <<"h", "t", "t", "p">>) THEN UrlResolve(source, sheet)
    ELSE LocalPath(source, Before(Before(sheet, "?"), "#"), options)

\* the sources: /w/i  i  w/i  http://a/i  httpd/i
PathSources == {
    <<"/", "w", "/", "i">>,
    <<"i">>,
    <<"w", "/", "i">>,
    <<"h", "t", "t", "p", ":", "/", "/", "a", "/", "i">>,
    <<"h", "t", "t", "p", "d", "/", "i">> }

\* the references: at most MaxPathPieces of these pieces in a row
PathPieces == {<<"h", "t", "t", "p">>, <<":">>, <<"/">>, <<"a">>, <<".">>, <<"?">>, <<"#">>}

PathRefs == {Flatten(ps) : ps \in SeqsUpTo(PathPieces, MaxPathPieces)}

PathOptions ==
    [htmlroot : {Undefined, Defined(<<"/", "r">>)},
     csspath : {Undefined, Defined(<<>>), Defined(<<"c">>)}]

InitPath ==
    /\ pSource \in PathSources
    /\ pSheet \in PathRefs
    /\ pOptions \in PathOptions
    /\ pResult = <<>>
    /\ pPc = "in"
    /\ UncssOff
    /\ NormOff

\* parsePaths(pSource, [pSheet], pOptions)
ParsePaths ==
    /\ pPc = "in"
    /\ pResult' = ParseSheet(pSource, pSheet, pOptions)
    /\ pPc' = "out"
    /\ UNCHANGED <<pSource, pSheet, pOptions, uncssVars, normVars>>

NextPath == ParsePaths

SpecPath == InitPath /\ [][NextPath]_vars

\* C8: for a filesystem source and a filesystem reference (relative, or
\* root-relative with no htmlroot), with no csspath in the options,
\* parsePaths raises no error and returns the directory of the source joined
\* with the reference cut at its query string or fragment.
C8_TotalWithoutCsspath ==
    ( /\ pPc = "out"
      /\ ~Protocol(pSource).defined
      /\ ~Protocol(pSheet).defined
      /\ ~StartsWith(pSheet, <<"/", "/">>)
      /\ ~pOptions.csspath.defined
      /\ (StartsWith(pSheet, <<"/">>) => ~pOptions.htmlroot.defined) )
    => ( /\ pResult.kind = "string"
         /\ pResult.text =
              PathNormalize(PathDirname(pSource) \o <<"/">>
                            \o Before(Before(pSheet, "?"), "#")) )

====
